---- MODULE Spec2Model ----
(***************************************************************************)
(* A model of app.py: the retrying fetch (fetch_with_retries), the link    *)
(* extractor (get_external_links), the result scraper                      *)
(* (scrape_google_search_results) and the bounded-concurrency fan-out      *)
(* (process_search_results).                                               *)
(*                                                                         *)
(* Strings that the code parses or searches are sequences of one-character *)
(* strings, so that urlparse, geturl and the "in" substring test are       *)
(* computed and not assumed.                                               *)
(*                                                                         *)
(* The specifications share the variables; each drives one function and   *)
(* leaves the frames of the others idle:                                   *)
(*   SpecFetch    fetch_with_retries against a scripted session.get        *)
(*   SpecExtract  get_external_links on one page                           *)
(*   SpecScrape   scrape_google_search_results on one result page          *)
(*   SpecMain     main_async: one run after the Run button                 *)
(*   Spec         process_search_results: the tasks, the semaphore, gather *)
(*   SpecLive     Spec under the scheduling of the event loop              *)
(***************************************************************************)
EXTENDS Integers, Sequences, FiniteSets, TLC

VARIABLES
    fw_args,            \* fetch_with_retries: its arguments and the stub behind session.get
    fw,                 \* fetch_with_retries: its frame
    gel,                \* get_external_links: arguments, frame and return value
    sgr,                \* scrape_google_search_results: arguments, frame and return value
    urls,               \* process_search_results: the urls argument
    concurrency_limit,  \* process_search_results: the concurrency_limit argument
    net,                \* fixture: how the network answers for each URL
    pages,              \* fixture: the page each URL serves
    semaphore,          \* asyncio.Semaphore: its value and its FIFO of waiters
    tasks,              \* one process_url task per position of urls
    gathered,           \* asyncio.gather: the results collected so far
    completed,          \* history: the tasks in the order they completed
    crawl_pc,           \* process_search_results: where the caller is
    crawl_result,       \* process_search_results: its return value
    main                \* main_async: the frame of one run after the Run button

vars == <<fw_args, fw, gel, sgr, urls, concurrency_limit, net, pages,
          semaphore, tasks, gathered, completed, crawl_pc, crawl_result, main>>

fetchVars == <<fw_args, fw>>
crawlVars == <<urls, concurrency_limit, net, pages, semaphore, tasks, gathered,
               completed, crawl_pc, crawl_result>>

(***************************************************************************)
(* Bounds of the model.                                                    *)
(***************************************************************************)
MaxRetries == 3
MaxBackoff == 2
MaxAnchors == 2
MaxResults == 3
MaxExclude == 2
MaxUrls == 3
MaxLimit == 2

(***************************************************************************)
(* Values.                                                                 *)
(***************************************************************************)
\* Python's None: the href of an anchor without one, the value of a function
\* that falls off its end.
None == "None"
\* The frame of a function that is not running under the specification at hand.
Idle == [pc |-> "idle"]

(***************************************************************************)
(* Strings as sequences of characters.                                     *)
(***************************************************************************)
LOWER == <<"a", "b", "c", "d", "e", "f", "g", "h", "i", "j", "k", "l", "m", "n", "o", "p", "q", "r", "s", "t", "u", "v", "w", "x", "y", "z">>
UPPER == <<"A", "B", "C", "D", "E", "F", "G", "H", "I", "J", "K", "L", "M", "N", "O", "P", "Q", "R", "S", "T", "U", "V", "W", "X", "Y", "Z">>
DIGITS == <<"0", "1", "2", "3", "4", "5", "6", "7", "8", "9">>

\* Let(x, F) is F(x) with x evaluated once, whatever the number of uses F
\* makes of it.
Let(x, F(_)) == CHOOSE r \in {F(v) : v \in {x}} : TRUE

Range(s) == {s[i] : i \in 1..Len(s)}

LowerLetters == Range(LOWER)
UpperLetters == Range(UPPER)
Digits == Range(DIGITS)

\* str.isalpha() for an ASCII character.
IsAlpha(c) == c \in LowerLetters \/ c \in UpperLetters

\* urllib.parse.scheme_chars
IsSchemeChar(c) == IsAlpha(c) \/ c \in Digits \/ c \in {"+", "-", "."}

\* str.lower() of one character.
LowerChar(c) ==
    IF c \in UpperLetters
    THEN LOWER[CHOOSE i \in 1..Len(UPPER) : UPPER[i] = c]
    ELSE c

\* str.lower()
Lower(s) == [i \in 1..Len(s) |-> LowerChar(s[i])]

\* str.find(c, start) for a one-character c, 1-based; 0 when c does not occur.
Find(s, c, start) ==
    IF \E i \in start..Len(s) : s[i] = c
    THEN CHOOSE i \in start..Len(s) : s[i] = c /\ \A j \in start..(i - 1) : s[j] # c
    ELSE 0

\* s[i:] and s[:i] with the 1-based position i of the first character kept/dropped.
From(s, i) == SubSeq(s, i, Len(s))
Upto(s, i) == SubSeq(s, 1, i)

\* str.split(c, 1) when c occurs, else (s, ""): [head, tail].
SplitAt(s, c) ==
    Let(Find(s, c, 1), LAMBDA i :
        IF i > 0 THEN [head |-> Upto(s, i - 1), tail |-> From(s, i + 1)]
        ELSE [head |-> s, tail |-> <<>>])

\* Python's "sub in s" for strings.
Contains(s, sub) ==
    \E i \in 0..(Len(s) - Len(sub)) : SubSeq(s, i + 1, i + Len(sub)) = sub

(***************************************************************************)
(* urllib.parse.urlparse and ParseResult.geturl, as the code calls them.   *)
(* The fixtures hold no whitespace, no control character, no ";" and no    *)
(* non-ASCII character, so urlsplit's lstrip, its removal of tab and       *)
(* newline, urlparse's params split and _checknetloc change nothing here;  *)
(* no fixture holds both "[" and "]", so _check_bracketed_host never runs. *)
(***************************************************************************)
S_http == <<"h", "t", "t", "p">>
S_https == <<"h", "t", "t", "p", "s">>
S_ftp == <<"f", "t", "p">>
S_file == <<"f", "i", "l", "e">>
S_ws == <<"w", "s">>
S_wss == <<"w", "s", "s">>
S_sftp == <<"s", "f", "t", "p">>
S_git == <<"g", "i", "t">>

\* urllib.parse.uses_netloc, cut to the schemes the fixtures can spell.
uses_netloc == {<<>>, S_ftp, S_http, S_https, S_file, S_ws, S_wss, S_sftp, S_git}

\* urlsplit's scheme step: the position of the ":" that ends a scheme, or 0.
SchemeEnd(url) ==
    Let(Find(url, ":", 1), LAMBDA i :
        IF /\ i > 1
           /\ IsAlpha(url[1])
           /\ \A k \in 1..(i - 1) : IsSchemeChar(url[k])
        THEN i ELSE 0)

\* The first of "/", "?", "#" at or after the third character of url, 1-based,
\* or Len(url) + 1.
NetlocEnd(url) ==
    IF \E i \in 3..Len(url) : url[i] \in {"/", "?", "#"}
    THEN CHOOSE i \in 3..Len(url) :
            url[i] \in {"/", "?", "#"} /\ \A j \in 3..(i - 1) : url[j] \notin {"/", "?", "#"}
    ELSE Len(url) + 1

\* "if url[:2] == '//': netloc, url = _splitnetloc(url, 2)": [netloc, rest].
SplitNetloc(url) ==
    IF Len(url) >= 2 /\ url[1] = "/" /\ url[2] = "/"
    THEN Let(NetlocEnd(url), LAMBDA ne :
             [netloc |-> SubSeq(url, 3, ne - 1), rest |-> From(url, ne)])
    ELSE [netloc |-> <<>>, rest |-> url]

\* urlsplit's "Invalid IPv6 URL" test.
InvalidIPv6(netloc) ==
    \/ (\E i \in 1..Len(netloc) : netloc[i] = "[") /\ (\A i \in 1..Len(netloc) : netloc[i] # "]")
    \/ (\E i \in 1..Len(netloc) : netloc[i] = "]") /\ (\A i \in 1..Len(netloc) : netloc[i] # "[")

\* urlparse(url): [raised, scheme, netloc, path, query, fragment]. raised is
\* the ValueError("Invalid IPv6 URL") of urlsplit.
urlparse(url) ==
    Let(SchemeEnd(url), LAMBDA se :
    Let(SplitNetloc(IF se > 0 THEN From(url, se + 1) ELSE url), LAMBDA n :
    Let(SplitAt(n.rest, "#"), LAMBDA fr :
    Let(SplitAt(fr.head, "?"), LAMBDA q :
        [raised |-> InvalidIPv6(n.netloc),
         scheme |-> IF se > 0 THEN Lower(Upto(url, se - 1)) ELSE <<>>,
         netloc |-> n.netloc, path |-> q.head,
         query |-> q.tail, fragment |-> fr.tail]))))

\* ParseResult.geturl(): urlunparse, that is urlunsplit with empty params.
geturl(p) ==
    LET slashes == Len(p.path) >= 2 /\ p.path[1] = "/" /\ p.path[2] = "/"
        withNetloc ==
            \/ p.netloc # <<>>
            \/ (p.scheme # <<>> /\ p.scheme \in uses_netloc /\ ~slashes)
        u0 == IF withNetloc /\ p.path # <<>> /\ p.path[1] # "/"
              THEN <<"/">> \o p.path ELSE p.path
        u1 == IF withNetloc THEN <<"/", "/">> \o p.netloc \o u0 ELSE p.path
        u2 == IF p.scheme # <<>> THEN p.scheme \o <<":">> \o u1 ELSE u1
        u3 == IF p.query # <<>> THEN u2 \o <<"?">> \o p.query ELSE u2
    IN  IF p.fragment # <<>> THEN u3 \o <<"#">> \o p.fragment ELSE u3

(***************************************************************************)
(* fetch_with_retries(url, session, retries=3, backoff_factor=2).          *)
(*                                                                         *)
(* One GET is session.get, raise_for_status and response.text() together;  *)
(* its outcome is "ok" (a body), "client_error" (an aiohttp.ClientError,   *)
(* the class the except clause names) or "other_error" (any exception that *)
(* is not an aiohttp.ClientError).                                         *)
(***************************************************************************)
DefaultRetries == 3
DefaultBackoff == 2

Outcomes == {"ok", "client_error", "other_error"}

RECURSIVE Pow(_, _)
\* backoff_factor ** attempt
Pow(b, e) == IF e = 0 THEN 1 ELSE b * Pow(b, e - 1)

\* range(retries) is empty: the loop body never runs and the function returns None.
FellThrough(retries) == retries <= 0

\* The frame on entry: the first iteration's session.get is awaited (pc "get"),
\* or the loop is empty and the function has returned None.
FetchEnter(retries) ==
    [pc |-> IF FellThrough(retries) THEN "returned" ELSE "get",
     attempt |-> 0, gets |-> 0, sleeps |-> <<>>, result |-> None,
     error |-> "none", error_attempt |-> -1]

\* Variants of WillRetry with an off-by-one bound: one that gives up one
\* attempt early, one that sleeps after the last attempt too.
WillRetry_GivesUpEarly(attempt, retries) == attempt < retries - 2
WillRetry_Always(attempt, retries) == attempt < retries

\* "if attempt < retries - 1": another attempt follows this failed one.
WillRetry(attempt, retries) == attempt < retries - 1

\* A variant of BackoffDelay with a linear delay.
BackoffDelay_Linear(backoff_factor, attempt) == backoff_factor * attempt

\* The duration handed to asyncio.sleep after failed attempt `attempt`.
BackoffDelay(backoff_factor, attempt) == Pow(backoff_factor, attempt)

\* The GET of the current attempt has ended with `outcome` (and `body` if ok).
FetchAfterGet(f, retries, backoff_factor, outcome, body) ==
    LET g == [f EXCEPT !.gets = @ + 1]
    IN  CASE outcome = "ok" ->
               [g EXCEPT !.pc = "returned", !.result = body]
          [] outcome = "client_error" /\ WillRetry(f.attempt, retries) ->
               [g EXCEPT !.pc = "sleep",
                         !.sleeps = Append(@, BackoffDelay(backoff_factor, f.attempt))]
          [] outcome = "client_error" /\ ~WillRetry(f.attempt, retries) ->
               [g EXCEPT !.pc = "raised", !.error = "client_error", !.error_attempt = f.attempt]
          [] OTHER ->
               [g EXCEPT !.pc = "raised", !.error = "other_error", !.error_attempt = f.attempt]

\* asyncio.sleep has returned: the for loop takes its next attempt, or is
\* exhausted and the function returns None.
FetchAfterSleep(f, retries) ==
    IF f.attempt + 1 < retries THEN [f EXCEPT !.pc = "get", !.attempt = @ + 1]
    ELSE [f EXCEPT !.pc = "returned", !.result = None]

\* The stub behind session.get for the callers of fetch_with_retries: how a
\* URL's server answers attempt `attempt` (0-based) of a fetch. "invalid" and
\* "unusable" fail every GET before its first await (as aiohttp does for a
\* URL it rejects, an InvalidURL, and for a session that is closed, a
\* RuntimeError); the other behaviours answer after the GET has suspended.
Behaviours == {"up", "flaky", "down", "broken", "invalid", "unusable"}

StubOutcome(behaviour, attempt) ==
    CASE behaviour = "up" -> "ok"
      [] behaviour = "flaky" -> IF attempt = 0 THEN "client_error" ELSE "ok"
      [] behaviour \in {"down", "invalid"} -> "client_error"
      [] OTHER -> "other_error"

\* The GETs of a server of this behaviour end without suspending the caller.
Immediate(behaviour) == behaviour \in {"invalid", "unusable"}

(***************************************************************************)
(* SpecFetch: one call of fetch_with_retries. The stub behind session.get  *)
(* answers attempt k (0-based) with script[k + 1], the class of what       *)
(* causes[k + 1] raises.                                                   *)
(***************************************************************************)
Bodies == {"body1", "body2"}

Scripts == [1..MaxRetries -> Outcomes]

\* What can happen to an attempt, by cause.
Causes == {"ok", "connection_failure", "server_error", "timeout", "malformed_url",
           "unparseable_response"}

\* The class of the exception the attempt ends with, as "except
\* aiohttp.ClientError" sees it. A refused or broken connection is a
\* ClientConnectionError, a 5xx status makes raise_for_status raise
\* ClientResponseError and a URL that session.get rejects is an InvalidURL:
\* all three are ClientErrors. The expiry of the session's timeout is an
\* asyncio.TimeoutError and a body that response.text() cannot decode is a
\* UnicodeDecodeError: neither is a ClientError.
RaisedAs(cause) ==
    CASE cause = "ok" -> "ok"
      [] cause \in {"connection_failure", "server_error", "malformed_url"} -> "client_error"
      [] OTHER -> "other_error"

FetchInit ==
    /\ \E r \in 0..MaxRetries, b \in 1..MaxBackoff, body \in Bodies,
          c \in [1..MaxRetries -> Causes] :
       \E s \in {[k \in 1..MaxRetries |-> RaisedAs(c[k])]} \cap Scripts :
           fw_args = [retries |-> r, backoff_factor |-> b, causes |-> c,
                      script |-> s, body |-> body]
    /\ fw = [pc |-> "call", attempt |-> 0, gets |-> 0, sleeps |-> <<>>,
             result |-> None, error |-> "none", error_attempt |-> -1]

FetchCall ==
    /\ fw.pc = "call"
    /\ fw' = FetchEnter(fw_args.retries)
    /\ UNCHANGED <<fw_args, gel, sgr, crawlVars, main>>

FetchGetDone ==
    /\ fw.pc = "get"
    /\ fw' = FetchAfterGet(fw, fw_args.retries, fw_args.backoff_factor,
                           fw_args.script[fw.attempt + 1], fw_args.body)
    /\ UNCHANGED <<fw_args, gel, sgr, crawlVars, main>>

FetchSleepDone ==
    /\ fw.pc = "sleep"
    /\ fw' = FetchAfterSleep(fw, fw_args.retries)
    /\ UNCHANGED <<fw_args, gel, sgr, crawlVars, main>>

FetchNext ==
    \/ FetchCall
    \/ FetchGetDone
    \/ FetchSleepDone

(***************************************************************************)
(* get_external_links(url, session, search_result_domains).                *)
(*                                                                         *)
(* A page is what BeautifulSoup makes of the body: Unparseable when the    *)
(* parser raises, else the sequence of its <a> elements in document order, *)
(* each given by its href attribute.                                       *)
(***************************************************************************)
\* A page BeautifulSoup cannot parse, and a page with the given anchors.
Unparseable == [parses |-> FALSE, all_links |-> <<>>]
Page(anchors) == [parses |-> TRUE, all_links |-> anchors]

\* An <a> without an href attribute (link.get("href") is None), and one with.
NoHref == [has_href |-> FALSE, href |-> <<>>]
A(href) == [has_href |-> TRUE, href |-> href]

\* "if href and 'http' in href", href being link.get("href")
HrefPassesGuard(link) == link.has_href /\ link.href # <<>> /\ Contains(link.href, S_http)

\* "parsed_href.netloc != parsed_website.netloc and parsed_href.netloc in
\* search_result_domains"
IsFilteredExternal(parsed_href, parsed_website, search_result_domains) ==
    /\ parsed_href.netloc # parsed_website.netloc
    /\ parsed_href.netloc \in search_result_domains

\* What the loop appends for an accepted anchor.
AppendedLink(href, parsed_href) == geturl(parsed_href)

\* One iteration of the for loop over all_links, external_links being
\* st.links: [links, raised], raised when urlparse raised at this anchor.
LinksStep(st, parsed_website, link, search_result_domains) ==
    IF ~HrefPassesGuard(link) THEN st
    ELSE Let(urlparse(link.href), LAMBDA parsed_href :
             IF parsed_href.raised \/ parsed_website.raised
             THEN [st EXCEPT !.raised = TRUE]
             ELSE IF IsFilteredExternal(parsed_href, parsed_website,
                                        search_result_domains)
                  THEN [st EXCEPT !.links = Append(@, AppendedLink(link.href, parsed_href))]
                  ELSE st)

\* The for loop: [links, raised]; once an iteration has raised the loop is
\* over and links is what had been appended before.
LinksLoop(url, all_links, search_result_domains) ==
    Let(urlparse(url), LAMBDA parsed_website :
        LET after[k \in 0..Len(all_links)] ==
                IF k = 0 THEN [links |-> <<>>, raised |-> FALSE]
                ELSE Let(after[k - 1], LAMBDA st :
                         IF st.raised THEN st
                         ELSE LinksStep(st, parsed_website, all_links[k],
                                        search_result_domains))
        IN  after[Len(all_links)])

\* A variant of IsException for "except aiohttp.ClientError".
IsException_ClientErrorOnly(kind) == kind = "client_error"

\* "except Exception": the exceptions of the model (the two a fetch ends
\* with, the parser's, urlparse's ValueError) all derive from Exception.
IsException(kind) == kind \in {"client_error", "other_error", "parser_error", "ValueError"}

\* What "return external_links" returns once the except clause has swallowed
\* an exception raised while the list held `partial`.
ReturnAfterException(partial) == partial

\* The try statement ends by an exception of class `kind` raised while
\* external_links held `partial`: swallowed and logged, or propagated.
GelExcept(kind, partial) ==
    IF IsException(kind)
    THEN [external_links |-> ReturnAfterException(partial), caught |-> TRUE,
          escaped |-> "none"]
    ELSE [external_links |-> <<>>, caught |-> FALSE, escaped |-> kind]

\* The body of get_external_links once fetch_with_retries has ended,
\* fetch_error being "none" when it returned the body of `page` and the class
\* of its exception when it raised: [external_links, caught, escaped], caught
\* when the except clause ran, escaped the exception that left the function.
get_external_links(url, fetch_error, page, search_result_domains) ==
    IF fetch_error # "none" THEN GelExcept(fetch_error, <<>>)
    ELSE IF ~page.parses THEN GelExcept("parser_error", <<>>)
    ELSE Let(LinksLoop(url, page.all_links, search_result_domains), LAMBDA r :
             IF r.raised THEN GelExcept("ValueError", r.links)
             ELSE [external_links |-> r.links, caught |-> FALSE, escaped |-> "none"])

(***************************************************************************)
(* Fixtures: candidate URLs, their domains, and hrefs.                     *)
(***************************************************************************)
U_A == <<"h", "t", "t", "p", "s", ":", "/", "/", "a", ".", "c", "o", "m">>
U_B == <<"h", "t", "t", "p", "s", ":", "/", "/", "b", ".", "c", "o", "m">>
D_A == <<"a", ".", "c", "o", "m">>
D_B == <<"b", ".", "c", "o", "m">>
D_C == <<"c", ".", "c", "o", "m">>
H_A == <<"h", "t", "t", "p", "s", ":", "/", "/", "a", ".", "c", "o", "m">>
H_B == <<"h", "t", "t", "p", "s", ":", "/", "/", "b", ".", "c", "o", "m">>
H_C == <<"h", "t", "t", "p", "s", ":", "/", "/", "c", ".", "c", "o", "m">>
H_AY == <<"h", "t", "t", "p", "s", ":", "/", "/", "a", ".", "c", "o", "m", "/", "y">>
H_BZ == <<"h", "t", "t", "p", "s", ":", "/", "/", "b", ".", "c", "o", "m", "/", "z">>
H_REL == <<"/", "a", "b", "o", "u", "t">>
H_SREL == <<"/", "/", "b", ".", "c", "o", "m", "/", "h", "t", "t", "p">>
H_FTP == <<"f", "t", "p", ":", "/", "/", "b", ".", "c", "o", "m", "/", "z">>
H_UP == <<"H", "T", "T", "P", "S", ":", "/", "/", "b", ".", "c", "o", "m", "/", "z">>
H_EQ == <<"h", "t", "t", "p", "s", ":", "/", "/", "b", ".", "c", "o", "m", "/", "?">>
H_BAD == <<"h", "t", "t", "p", ":", "/", "/", "[", "x">>

URLs == {U_A, U_B}

Hrefs == {<<>>, H_A, H_B, H_C, H_AY, H_BZ, H_REL, H_SREL, H_FTP, H_UP, H_EQ, H_BAD}

Anchors == {NoHref} \cup {A(h) : h \in Hrefs}

SeqsUpTo(S, n) == UNION {[1..m -> S] : m \in 0..n}

(***************************************************************************)
(* SpecExtract: one call of get_external_links.                            *)
(***************************************************************************)
ExtractInit ==
    \E u \in URLs,
       p \in {Page(a) : a \in SeqsUpTo(Anchors, MaxAnchors)} \cup {Unparseable},
       d \in {{D_A, D_B}, {D_A, D_B, D_C}} :
        gel = [url |-> u, page |-> p, search_result_domains |-> d,
               pc |-> "fetch", fetch_error |-> "none",
               external_links |-> <<>>, caught |-> FALSE, escaped |-> "none"]

\* fetch_with_retries returned the body: lines 55-66 run to the return.
GelFetchReturned ==
    /\ gel.pc = "fetch"
    /\ \E r \in {get_external_links(gel.url, "none", gel.page, gel.search_result_domains)} :
           gel' = [gel EXCEPT !.pc = "done",
                              !.external_links = r.external_links,
                              !.caught = r.caught, !.escaped = r.escaped]
    /\ UNCHANGED <<fetchVars, sgr, crawlVars, main>>

\* fetch_with_retries raised: the except clause runs, then the return.
GelFetchRaised ==
    /\ gel.pc = "fetch"
    /\ \E kind \in {"client_error", "other_error"} :
       \E r \in {get_external_links(gel.url, kind, gel.page, gel.search_result_domains)} :
           gel' = [gel EXCEPT !.pc = "done", !.fetch_error = kind,
                              !.external_links = r.external_links,
                              !.caught = r.caught, !.escaped = r.escaped]
    /\ UNCHANGED <<fetchVars, sgr, crawlVars, main>>

ExtractNext ==
    \/ GelFetchReturned
    \/ GelFetchRaised

(***************************************************************************)
(* scrape_google_search_results(query, num_results, lang,                  *)
(*                              exclude_websites, session).                *)
(*                                                                         *)
(* The result page is the sequence of its div.tF2Cxc containers in page    *)
(* order, each given by what result.find("a")["href"] meets: no <a>        *)
(* (TypeError), an <a> without href (KeyError), or the href.               *)
(***************************************************************************)
NoAnchor == [has_a |-> FALSE, has_href |-> FALSE, href |-> <<>>]
AnchorNoHref == [has_a |-> TRUE, has_href |-> FALSE, href |-> <<>>]
Result(href) == [has_a |-> TRUE, has_href |-> TRUE, href |-> href]

UnparseableResults == [parses |-> FALSE, search_results |-> <<>>]
ResultPage(containers) == [parses |-> TRUE, search_results |-> containers]

\* The string the exclusion test searches: parsed_link.geturl().
ExclusionSubject(link, parsed_link) == geturl(parsed_link)

\* A variant of IsExcluded with all() in place of any().
IsExcluded_All(link, parsed_link, exclude_websites) ==
    Let(ExclusionSubject(link, parsed_link), LAMBDA subject :
        \A i \in 1..Len(exclude_websites) : Contains(subject, exclude_websites[i]))

\* "any(website in parsed_link.geturl() for website in exclude_websites)"
IsExcluded(link, parsed_link, exclude_websites) ==
    Let(ExclusionSubject(link, parsed_link), LAMBDA subject :
        \E i \in 1..Len(exclude_websites) : Contains(subject, exclude_websites[i]))

\* One iteration of the for loop over search_results, result_urls being
\* st.result_urls: [result_urls, raised, raised_kind].
ScrapeStep(st, result, exclude_websites) ==
    IF ~result.has_a \/ ~result.has_href
    THEN [st EXCEPT !.raised = TRUE, !.raised_kind = "other_error"]
    ELSE Let(urlparse(result.href), LAMBDA parsed_link :
             IF parsed_link.raised
             THEN [st EXCEPT !.raised = TRUE, !.raised_kind = "ValueError"]
             ELSE IF ~IsExcluded(result.href, parsed_link, exclude_websites)
                  THEN [st EXCEPT !.result_urls = Append(@, result.href)]
                  ELSE st)

\* The for loop: [result_urls, raised, raised_kind].
ScrapeLoop(search_results, exclude_websites) ==
    LET after[k \in 0..Len(search_results)] ==
            IF k = 0 THEN [result_urls |-> <<>>, raised |-> FALSE, raised_kind |-> "none"]
            ELSE Let(after[k - 1], LAMBDA st :
                     IF st.raised THEN st
                     ELSE ScrapeStep(st, search_results[k], exclude_websites))
    IN  after[Len(search_results)]

\* A variant of ReturnAfterScrapeError that keeps the links accepted so far.
ReturnAfterScrapeError_Partial(result_urls) == result_urls

\* "return []" of the except clause, result_urls being the links accepted
\* before the exception.
ReturnAfterScrapeError(result_urls) == <<>>

\* A variant of SgrExcept that does not call st.error.
SgrExcept_Silent(kind) ==
    IF IsException(kind) THEN [result_urls |-> <<>>, errors |-> 0, escaped |-> "none"]
    ELSE [result_urls |-> <<>>, errors |-> 0, escaped |-> kind]

\* The except clause of the function, for an exception of class `kind`:
\* st.error and "return []", or the exception propagates.
SgrExcept(kind) ==
    IF IsException(kind) THEN [result_urls |-> <<>>, errors |-> 1, escaped |-> "none"]
    ELSE [result_urls |-> <<>>, errors |-> 0, escaped |-> kind]

\* The function once fetch_with_retries has ended (fetch_error as for
\* get_external_links): [result_urls, errors, escaped], errors counting the
\* st.error calls. TypeError and KeyError of result.find("a")["href"] are
\* given as "other_error".
scrape_google_search_results(fetch_error, page, exclude_websites) ==
    IF fetch_error # "none" THEN SgrExcept(fetch_error)
    ELSE IF ~page.parses THEN SgrExcept("parser_error")
    ELSE Let(ScrapeLoop(page.search_results, exclude_websites), LAMBDA r :
             IF r.raised
             THEN Let(SgrExcept(r.raised_kind), LAMBDA e :
                      IF e.escaped = "none"
                      THEN [e EXCEPT !.result_urls = ReturnAfterScrapeError(r.result_urls)]
                      ELSE e)
             ELSE [result_urls |-> r.result_urls, errors |-> 0, escaped |-> "none"])

\* Fixtures: result links and exclusion strings.
R_A == <<"h", "t", "t", "p", "s", ":", "/", "/", "a", ".", "c", "o", "m">>
R_SPAM == <<"h", "t", "t", "p", "s", ":", "/", "/", "s", "p", "a", "m", ".", "c", "o", "m", "/", "x">>
R_UPSPAM == <<"H", "T", "T", "P", "S", ":", "/", "/", "s", "p", "a", "m", ".", "c", "o", "m">>
R_BAD == <<"h", "t", "t", "p", ":", "/", "/", "[", "x">>
E_SPAM == <<"s", "p", "a", "m", ".", "c", "o", "m">>
E_HTTPS_SPAM == <<"h", "t", "t", "p", "s", ":", "/", "/", "s", "p", "a", "m">>
E_A == <<"a", ".", "c", "o", "m">>

Containers == {NoAnchor, AnchorNoHref} \cup {Result(h) : h \in {R_A, R_SPAM, R_UPSPAM, R_BAD}}

Excludes == {E_SPAM, E_HTTPS_SPAM, E_A}

(***************************************************************************)
(* SpecScrape: one call of scrape_google_search_results.                   *)
(***************************************************************************)
ScrapeInit ==
    \E p \in {ResultPage(c) : c \in SeqsUpTo(Containers, MaxResults)} \cup {UnparseableResults},
       e \in SeqsUpTo(Excludes, MaxExclude),
       b \in Behaviours :
        sgr = [page |-> p, exclude_websites |-> e, net |-> b, pc |-> "fetch",
               f |-> FetchEnter(DefaultRetries),
               fetch_error |-> "none", result_urls |-> <<>>, errors |-> 0,
               escaped |-> "none"]

\* The frame of "fetch_with_retries(url, session)" of line 35 once its pending
\* GET has ended: the defaults retries=3, backoff_factor=2 apply.
SgrAfterGet == FetchAfterGet(sgr.f, DefaultRetries, DefaultBackoff,
                             StubOutcome(sgr.net, sgr.f.attempt), "page")

\* A GET of the search URL failed and is retried: the backoff sleep starts.
SgrGetRetry ==
    /\ sgr.pc = "fetch"
    /\ sgr.f.pc = "get"
    /\ \E f2 \in {SgrAfterGet} :
           /\ f2.pc = "sleep"
           /\ sgr' = [sgr EXCEPT !.f = f2]
    /\ UNCHANGED <<fetchVars, gel, crawlVars, main>>

\* The backoff sleep ends: the next GET is awaited.
SgrSleepDone ==
    /\ sgr.pc = "fetch"
    /\ sgr.f.pc = "sleep"
    /\ sgr' = [sgr EXCEPT !.f = FetchAfterSleep(@, DefaultRetries)]
    /\ UNCHANGED <<fetchVars, gel, crawlVars, main>>

\* fetch_with_retries returned the body: lines 36-48 run to a return.
SgrFetchReturned ==
    /\ sgr.pc = "fetch"
    /\ sgr.f.pc = "get"
    /\ \E f2 \in {SgrAfterGet} :
           /\ f2.pc = "returned"
           /\ \E r \in {scrape_google_search_results("none", sgr.page, sgr.exclude_websites)} :
                  sgr' = [sgr EXCEPT !.pc = "done", !.f = f2,
                                     !.result_urls = r.result_urls,
                                     !.errors = r.errors, !.escaped = r.escaped]
    /\ UNCHANGED <<fetchVars, gel, crawlVars, main>>

\* fetch_with_retries raised: the except clause returns [].
SgrFetchRaised ==
    /\ sgr.pc = "fetch"
    /\ sgr.f.pc = "get"
    /\ \E f2 \in {SgrAfterGet} :
           /\ f2.pc = "raised"
           /\ \E r \in {scrape_google_search_results(f2.error, sgr.page, sgr.exclude_websites)} :
                  sgr' = [sgr EXCEPT !.pc = "done", !.f = f2, !.fetch_error = f2.error,
                                     !.result_urls = r.result_urls,
                                     !.errors = r.errors, !.escaped = r.escaped]
    /\ UNCHANGED <<fetchVars, gel, crawlVars, main>>

ScrapeNext ==
    \/ SgrGetRetry
    \/ SgrSleepDone
    \/ SgrFetchReturned
    \/ SgrFetchRaised

(***************************************************************************)
(* process_search_results(urls, session, concurrency_limit=5).             *)
(*                                                                         *)
(* asyncio runs one callback at a time: a task runs from one await that    *)
(* suspends it to the next, and nothing interleaves in between. The awaits *)
(* that suspend a process_url task are the semaphore's acquire (when it is *)
(* locked), the GET and the backoff sleep.                                 *)
(***************************************************************************)
\* "{urlparse(url).netloc for url in urls}"
search_result_domains(us) == {urlparse(us[i]).netloc : i \in 1..Len(us)}

\* asyncio.Semaphore(concurrency_limit)
Semaphore(value) == [value |-> value, waiters |-> <<>>]

\* A variant of SemLocked that still admits at value 0.
SemLocked_OffByOne(sem) == sem.value < 0 \/ sem.waiters # <<>>

\* Semaphore.locked()
SemLocked(sem) == sem.value = 0 \/ sem.waiters # <<>>

\* A variant of SemAcquire that queues a waiter at the front.
SemAcquire_Lifo(sem, i) ==
    IF ~(sem.value = 0 \/ sem.waiters # <<>>) THEN [sem EXCEPT !.value = @ - 1]
    ELSE [sem EXCEPT !.waiters = <<i>> \o @]

\* Semaphore.acquire() by task i up to its return or its suspension.
SemAcquire(sem, i) ==
    IF ~SemLocked(sem) THEN [sem EXCEPT !.value = @ - 1]
    ELSE [sem EXCEPT !.waiters = Append(@, i)]

\* A variant of SemRelease that gives the slot back only to a waiter.
SemRelease_Leak(sem) ==
    IF sem.waiters # <<>> THEN [sem EXCEPT !.waiters = Tail(@)] ELSE sem

\* Semaphore.release(): the value goes up and _wake_up_next hands it to the
\* first waiter, if any.
SemRelease(sem) ==
    IF sem.waiters # <<>> THEN [sem EXCEPT !.waiters = Tail(@)]
    ELSE [sem EXCEPT !.value = @ + 1]

\* A variant of GatherStore that appends on completion: the outcome goes to
\* the first free position.
GatherStore_Append(g, i, r) ==
    LET k == CHOOSE k \in 1..Len(g) : ~g[k].done /\ \A j \in 1..(k - 1) : g[j].done
    IN  [g EXCEPT ![k] = [done |-> TRUE, value |-> r.external_links, raised |-> r.escaped]]

\* A variant of GatherStore that fills the positions from the last one, in
\* the order of completion.
GatherStore_FromEnd(g, i, r) ==
    LET k == CHOOSE k \in 1..Len(g) : ~g[k].done /\ \A j \in (k + 1)..Len(g) : g[j].done
    IN  [g EXCEPT ![k] = [done |-> TRUE, value |-> r.external_links, raised |-> r.escaped]]

\* asyncio.gather: the outcome of child i (its return value, or the exception
\* it ended with) is kept at position i.
GatherStore(g, i, r) ==
    [g EXCEPT ![i] = [done |-> TRUE, value |-> r.external_links, raised |-> r.escaped]]

\* A variant of GatherDone that is done with the first child.
GatherDone_FirstCompleted(g) == \E i \in 1..Len(g) : g[i].done

\* gather's future is done: every child is, or a child has raised.
GatherDone(g) ==
    \/ \A i \in 1..Len(g) : g[i].done
    \/ \E i \in 1..Len(g) : g[i].done /\ g[i].raised # "none"

\* What awaiting gather gives: the children's results in the order of the
\* children, or the exception of a child.
GatherOutcome(g) ==
    IF \E i \in 1..Len(g) : g[i].done /\ g[i].raised # "none"
    THEN [pc |-> "raised", result |-> <<>>]
    ELSE [pc |-> "returned", result |-> [i \in 1..Len(g) |-> g[i].value]]

\* Page fixtures: the scenario of the specification (a.com links to b.com and
\* c.com, b.com links to a.com), and one with a malformed href and a page
\* that does not parse.
ScenarioPages == (U_A :> Page(<<A(H_B), A(H_C)>>)) @@ (U_B :> Page(<<A(H_A)>>))
FaultyPages == (U_A :> Page(<<A(H_B), A(H_BAD), A(H_B)>>)) @@ (U_B :> Unparseable)

\* A process_url task: where it is, its fetch frame, how many tasks had ended
\* when the event loop could first schedule the end of its pending GET or
\* sleep, what it ended with (a return value or an exception), whether
\* get_external_links caught an exception, and the waiter its release woke
\* (0: none).
NewTask == [st |-> "created", f |-> Idle, since |-> 0, ret |-> <<>>,
            escaped |-> "none", caught |-> FALSE, woke |-> 0]

CrawlInit ==
    /\ urls \in UNION {[1..n -> URLs] : n \in 1..MaxUrls}
    /\ concurrency_limit \in 1..MaxLimit
    /\ net \in [URLs -> Behaviours]
    /\ pages \in {ScenarioPages, FaultyPages}
    /\ semaphore = Semaphore(concurrency_limit)
    /\ tasks = [i \in 1..Len(urls) |-> NewTask]
    /\ gathered = [i \in 1..Len(urls) |-> [done |-> FALSE, value |-> <<>>, raised |-> "none"]]
    /\ completed = <<>>
    /\ crawl_pc = "gathering"
    /\ crawl_result = <<>>

\* Every task has run its first step. The event loop runs its callbacks in
\* the order they were scheduled, and gather schedules the first steps of all
\* the tasks before any of them runs: whatever a first step schedules comes
\* after the last first step.
AllStarted == \A i \in 1..Len(urls) : tasks[i].st # "created"

\* The callbacks scheduled by the steps that ended the first n tasks to end
\* (for each, the wake-up of the waiter it released, then gather's
\* _done_callback) have run.
CallbacksRan(n) == \A k \in 1..n : gathered[completed[k]].done

\* The position in completed of the task whose release woke task i.
WokenAt(i) == CHOOSE k \in 1..Len(completed) : tasks[completed[k]].woke = i

\* A task that ends with a waiter at the semaphore schedules two callbacks
\* in one step, the wake-up of the waiter and then gather's _done_callback:
\* the second runs right after the first. This holds between the two.
DoneCallbackNext ==
    \E j \in 1..Len(urls) :
        /\ tasks[j].st = "done"
        /\ ~gathered[j].done
        /\ tasks[j].woke # 0
        /\ tasks[tasks[j].woke].st # "woken"

\* The tasks ts once the last first step has run, `ended` being the tasks
\* that have ended. The first steps run back to back: the end of a GET that
\* began in one of them is scheduled after them all, and so after the
\* callbacks they scheduled.
AfterFirstSteps(ts, ended) ==
    [j \in DOMAIN ts |->
        IF ts[j].st = "running" THEN [ts[j] EXCEPT !.since = Len(ended)] ELSE ts[j]]

\* The frame of task i once "session.get" has been called with frame f: the
\* GET is pending, or it has already failed without suspending the task.
EnterGet(i, f) ==
    IF f.pc = "get" /\ Immediate(net[urls[i]])
    THEN FetchAfterGet(f, DefaultRetries, DefaultBackoff,
                       StubOutcome(net[urls[i]], f.attempt), "page")
    ELSE f

\* A variant of WakeNext that wakes nobody.
WakeNext_Nobody(ts, sem) == ts

\* The tasks after a task has released the semaphore sem: the first waiter,
\* if any, has been woken.
WakeNext(ts, sem) ==
    IF sem.waiters # <<>> THEN [ts EXCEPT ![Head(sem.waiters)].st = "woken"] ELSE ts

\* The rest of a step of task i that holds a slot of sem, its fetch frame
\* being f2: the task stays suspended in a GET or a sleep, or
\* fetch_with_retries has ended, get_external_links runs to its end and
\* "async with" releases the semaphore. [tasks, semaphore, completed].
StepOutcome(sem, i, f2) ==
    IF f2.pc \in {"get", "sleep"}
    THEN [tasks |-> [tasks EXCEPT ![i] = [@ EXCEPT !.st = "running", !.f = f2,
                                                    !.since = Len(completed)]],
          semaphore |-> sem, completed |-> completed]
    ELSE Let(get_external_links(urls[i], f2.error, pages[urls[i]],
                                search_result_domains(urls)), LAMBDA r :
             [tasks |-> WakeNext([tasks EXCEPT ![i] =
                                     [st |-> "done", f |-> f2, since |-> 0,
                                      ret |-> r.external_links,
                                      escaped |-> r.escaped, caught |-> r.caught,
                                      woke |-> IF sem.waiters # <<>> THEN Head(sem.waiters)
                                               ELSE 0]],
                                 sem),
              semaphore |-> SemRelease(sem),
              completed |-> Append(completed, i)])

\* The first step of task i: "async with semaphore", and if admitted, on to
\* the first GET of get_external_links. Tasks start in the order of creation.
TaskStart(i) ==
    /\ crawl_pc = "gathering"
    /\ tasks[i].st = "created"
    /\ \A j \in 1..(i - 1) : tasks[j].st # "created"
    /\ \E o \in {IF SemLocked(semaphore)
                 THEN [tasks |-> [tasks EXCEPT ![i].st = "waiting"],
                       semaphore |-> SemAcquire(semaphore, i),
                       completed |-> completed]
                 ELSE StepOutcome(SemAcquire(semaphore, i), i,
                                  EnterGet(i, FetchEnter(DefaultRetries)))} :
           /\ tasks' = IF i = Len(urls) THEN AfterFirstSteps(o.tasks, o.completed)
                       ELSE o.tasks
           /\ semaphore' = o.semaphore
           /\ completed' = o.completed
    /\ UNCHANGED <<urls, concurrency_limit, net, pages, gathered, crawl_pc, crawl_result>>
    /\ UNCHANGED <<fetchVars, gel, sgr, main>>

\* A woken waiter resumes: acquire returns and the first GET is called. The
\* wake-up runs after the callbacks that were scheduled before it, those of
\* the tasks that ended before the task that woke this one.
TaskResume(i) ==
    /\ crawl_pc = "gathering"
    /\ tasks[i].st = "woken"
    /\ AllStarted
    /\ CallbacksRan(WokenAt(i) - 1)
    /\ \E o \in {StepOutcome(semaphore, i, EnterGet(i, FetchEnter(DefaultRetries)))} :
           /\ tasks' = o.tasks
           /\ semaphore' = o.semaphore
           /\ completed' = o.completed
    /\ UNCHANGED <<urls, concurrency_limit, net, pages, gathered, crawl_pc, crawl_result>>
    /\ UNCHANGED <<fetchVars, gel, sgr, main>>

\* The pending GET of task i ends and the task runs on: a retry goes to
\* sleep; otherwise the task ends. The resumption of the task is scheduled
\* after the GET began, so after the callbacks that were scheduled by then,
\* and never between two callbacks that one step scheduled.
TaskGetDone(i) ==
    /\ crawl_pc = "gathering"
    /\ AllStarted
    /\ ~DoneCallbackNext
    /\ CallbacksRan(tasks[i].since)
    /\ tasks[i].st = "running"
    /\ tasks[i].f.pc = "get"
    /\ \E o \in {StepOutcome(semaphore, i,
                               FetchAfterGet(tasks[i].f, DefaultRetries, DefaultBackoff,
                                             StubOutcome(net[urls[i]], tasks[i].f.attempt),
                                             "page"))} :
           /\ tasks' = o.tasks
           /\ semaphore' = o.semaphore
           /\ completed' = o.completed
    /\ UNCHANGED <<urls, concurrency_limit, net, pages, gathered, crawl_pc, crawl_result>>
    /\ UNCHANGED <<fetchVars, gel, sgr, main>>

\* The backoff sleep of task i ends: the GET of the next attempt is called.
TaskSleepDone(i) ==
    /\ crawl_pc = "gathering"
    /\ AllStarted
    /\ ~DoneCallbackNext
    /\ CallbacksRan(tasks[i].since)
    /\ tasks[i].st = "running"
    /\ tasks[i].f.pc = "sleep"
    /\ \E o \in {StepOutcome(semaphore, i,
                               EnterGet(i, FetchAfterSleep(tasks[i].f, DefaultRetries)))} :
           /\ tasks' = o.tasks
           /\ semaphore' = o.semaphore
           /\ completed' = o.completed
    /\ UNCHANGED <<urls, concurrency_limit, net, pages, gathered, crawl_pc, crawl_result>>
    /\ UNCHANGED <<fetchVars, gel, sgr, main>>

\* gather's _done_callback for task i, which the loop runs as a callback of
\* its own once the task has ended: after the first steps of all the tasks,
\* after the resumption of the waiter the task woke, and after the callbacks
\* of the tasks that ended before it.
TaskGathered(i) ==
    /\ crawl_pc = "gathering"
    /\ tasks[i].st = "done"
    /\ ~gathered[i].done
    /\ AllStarted
    /\ tasks[i].woke # 0 => tasks[tasks[i].woke].st # "woken"
    /\ \A k \in 1..Len(completed) :
           completed[k] = i => CallbacksRan(k - 1)
    /\ gathered' = GatherStore(gathered, i,
                               [external_links |-> tasks[i].ret,
                                escaped |-> tasks[i].escaped])
    /\ UNCHANGED <<urls, concurrency_limit, net, pages, semaphore, tasks, completed,
                   crawl_pc, crawl_result>>
    /\ UNCHANGED <<fetchVars, gel, sgr, main>>

\* "return await asyncio.gather(*tasks)": gather's future is done and the
\* caller resumes with its outcome.
CrawlReturn ==
    /\ crawl_pc = "gathering"
    /\ GatherDone(gathered)
    /\ crawl_pc' = GatherOutcome(gathered).pc
    /\ crawl_result' = GatherOutcome(gathered).result
    /\ UNCHANGED <<urls, concurrency_limit, net, pages, semaphore, tasks, gathered, completed>>
    /\ UNCHANGED <<fetchVars, gel, sgr, main>>

(***************************************************************************)
(* main_async(), lines 99-135: one run after the Run button.               *)
(*                                                                         *)
(* main: [pc, urls, errors, raised, crawl_calls]; errors counts the        *)
(* st.error calls of main_async itself, crawl_calls the calls of           *)
(* process_search_results.                                                 *)
(***************************************************************************)
\* "max_retries = 2"
max_retries == 2

\* What "session.get(url, headers=...)" does inside
\* fetch_with_retries(session, urls, max_retries): the parameter `session` is
\* bound to the list urls, and a list has no attribute get. The
\* AttributeError is not an aiohttp.ClientError.
ListSessionGet == "other_error"

MainInit ==
    main = [pc |-> "scrape", urls |-> <<>>, errors |-> 0, raised |-> "none",
            crawl_calls |-> 0]

\* Lines 102-106 with an empty list: st.error and return.
MainNoResults ==
    /\ main.pc = "scrape"
    /\ sgr.pc = "done"
    /\ sgr.escaped = "none"
    /\ sgr.result_urls = <<>>
    /\ main' = [main EXCEPT !.pc = "returned", !.errors = @ + 1]
    /\ UNCHANGED <<fetchVars, gel, sgr, crawlVars>>

\* Lines 102-110 with a list that is not empty: on to the second session.
MainHasResults ==
    /\ main.pc = "scrape"
    /\ sgr.pc = "done"
    /\ sgr.escaped = "none"
    /\ sgr.result_urls # <<>>
    /\ main' = [main EXCEPT !.pc = "fetch_links", !.urls = sgr.result_urls]
    /\ UNCHANGED <<fetchVars, gel, sgr, crawlVars>>

\* Line 112: "await fetch_with_retries(session, urls, max_retries)". The
\* first attempt raises at session.get and the exception leaves main_async.
MainFetchLinks ==
    /\ main.pc = "fetch_links"
    /\ \E f2 \in {FetchAfterGet(FetchEnter(max_retries), max_retries, DefaultBackoff,
                                 ListSessionGet, "page")} :
           main' = IF f2.pc = "raised"
                   THEN [main EXCEPT !.pc = "raised", !.raised = f2.error]
                   ELSE [main EXCEPT !.pc = "links_fetched"]
    /\ UNCHANGED <<fetchVars, gel, sgr, crawlVars>>

MainNext ==
    \/ ScrapeNext
    \/ MainNoResults
    \/ MainHasResults
    \/ MainFetchLinks

(***************************************************************************)
(* The specifications.                                                     *)
(***************************************************************************)
IdleFetch == fw_args = Idle /\ fw = Idle

IdleCrawl ==
    /\ urls = <<>> /\ concurrency_limit = 0 /\ net = <<>> /\ pages = <<>>
    /\ semaphore = Idle /\ tasks = <<>> /\ gathered = <<>> /\ completed = <<>>
    /\ crawl_pc = "idle" /\ crawl_result = <<>>

Init == CrawlInit /\ IdleFetch /\ gel = Idle /\ sgr = Idle /\ main = Idle

Next ==
    \/ \E i \in 1..Len(urls) : TaskStart(i)
    \/ \E i \in 1..Len(urls) : TaskResume(i)
    \/ \E i \in 1..Len(urls) : TaskGetDone(i)
    \/ \E i \in 1..Len(urls) : TaskSleepDone(i)
    \/ \E i \in 1..Len(urls) : TaskGathered(i)
    \/ CrawlReturn

Spec == Init /\ [][Next]_vars

\* The scheduling the crawl runs under: the event loop does not stop while a
\* callback is scheduled (a first step, a wake-up, gather's _done_callback,
\* the caller's resumption) or a GET or a backoff sleep is pending; one of
\* them is eventually run or ends.
CrawlFairness == WF_vars(Next)

\* The crawls the liveness specification follows: the schedule of a crawl
\* depends on the servers' behaviours at each position of urls and not on
\* the names of the URLs or on the anchors of the pages, so the first URL is
\* fixed and the pages are the faulty ones; every sequence of behaviours is
\* still drawn.
InitLive == Init /\ urls[1] = U_A /\ pages = FaultyPages

SpecLive == InitLive /\ [][Next]_vars /\ CrawlFairness

InitFetch == FetchInit /\ gel = Idle /\ sgr = Idle /\ IdleCrawl /\ main = Idle

SpecFetch == InitFetch /\ [][FetchNext]_vars

InitExtract == ExtractInit /\ IdleFetch /\ sgr = Idle /\ IdleCrawl /\ main = Idle

SpecExtract == InitExtract /\ [][ExtractNext]_vars

InitScrape == ScrapeInit /\ IdleFetch /\ gel = Idle /\ IdleCrawl /\ main = Idle

SpecScrape == InitScrape /\ [][ScrapeNext]_vars

InitMain == ScrapeInit /\ MainInit /\ IdleFetch /\ gel = Idle /\ IdleCrawl

SpecMain == InitMain /\ [][MainNext]_vars

(***************************************************************************)
(* Claims about process_search_results, under Spec.                        *)
(***************************************************************************)
\* The tasks admitted by the semaphore and not yet finished.
InSection == {i \in 1..Len(urls) : tasks[i].st \in {"running", "woken"}}

\* The fetch outcome the fixture of a URL leads to: "none" when some attempt
\* of the default three succeeds, else the class of the exception.
FetchErrorFor(behaviour) ==
    CASE behaviour \in {"up", "flaky"} -> "none"
      [] behaviour \in {"down", "invalid"} -> "client_error"
      [] OTHER -> "other_error"

\* The link list of urls[i] under the fixtures.
LinksFor(i) ==
    get_external_links(urls[i], FetchErrorFor(net[urls[i]]), pages[urls[i]],
                       search_result_domains(urls)).external_links

\* C1: at every moment of the crawl the number of tasks inside their
\* fetch/extraction section (admitted and not finished, asleep in backoff
\* included) is at most concurrency_limit.
C1_AtMostLimitInSection == Cardinality(InSection) <= concurrency_limit

\* C1 witness: the section is full, a task in it sleeps in backoff, and
\* another task waits at the semaphore.
C1_Witness ==
    /\ crawl_pc = "gathering"
    /\ Cardinality(InSection) = concurrency_limit
    /\ \E i \in InSection : tasks[i].st = "running" /\ tasks[i].f.pc = "sleep"
    /\ \E i \in 1..Len(urls) : tasks[i].st = "waiting"

\* C2: when the crawl has returned, record i is the link list computed for
\* urls[i], for every position i, whatever the order of completion.
C2_PositionalMapping ==
    crawl_pc = "returned" =>
        \A i \in 1..Len(urls) :
            crawl_result[i] = tasks[i].ret /\ crawl_result[i] = LinksFor(i)

\* C2 witness: the crawl has returned, the first task to complete was not
\* the first task, and the first two records differ.
C2_Witness ==
    /\ crawl_pc = "returned"
    /\ Len(urls) >= 2
    /\ completed[1] # 1
    /\ crawl_result[1] # crawl_result[2]

\* C3: the crawl ends only by returning, and what it returns has exactly
\* len(urls) records, whichever fetches fail and whether or not urls holds a
\* URL twice.
C3_LengthPreserved ==
    crawl_pc # "gathering" =>
        crawl_pc = "returned" /\ Len(crawl_result) = Len(urls)

\* C3 witness: the crawl has returned for a list that holds a URL twice, with
\* a task that failed and a task that did not.
C3_Witness ==
    /\ crawl_pc = "returned"
    /\ \E i, j \in 1..Len(urls) : i # j /\ urls[i] = urls[j]
    /\ \E i \in 1..Len(urls) : tasks[i].caught
    /\ \E i \in 1..Len(urls) : ~tasks[i].caught

\* C4, as claimed: a failure inside a task never escapes it; the crawl
\* returns, the record of every task that failed (fetch, parse or anchor) is
\* the empty list, and every record is the one its own URL's fixture gives.
C4_FailureIsolatedEmptyRecord ==
    crawl_pc # "gathering" =>
        /\ crawl_pc = "returned"
        /\ \A i \in 1..Len(urls) :
            /\ tasks[i].caught => crawl_result[i] = <<>>
            /\ crawl_result[i] = LinksFor(i)

\* The part of C4 the code keeps: no failure escapes a task, the crawl returns,
\* and every record depends on its own URL's fixture alone; a task whose fetch
\* failed or whose page did not parse has the empty record.
C4_IsolationHolds ==
    crawl_pc # "gathering" =>
        /\ crawl_pc = "returned"
        /\ \A i \in 1..Len(urls) :
            /\ crawl_result[i] = LinksFor(i)
            /\ (FetchErrorFor(net[urls[i]]) # "none" \/ ~pages[urls[i]].parses)
                   => crawl_result[i] = <<>>

(***************************************************************************)
(* Claims about fetch_with_retries, under SpecFetch.                       *)
(***************************************************************************)
\* The call has ended: by a return or by an exception.
FetchEnded == fw.pc \in {"returned", "raised"}

\* The call has ended in a Success (a body) / in a Failure (an exception).
FetchSuccess == fw.pc = "returned" /\ fw.result # None
FetchFailure == fw.pc = "raised"

\* The stub fails the first n attempts with an aiohttp.ClientError and
\* answers attempt n + 1.
FailsThenSucceeds(n) ==
    /\ n + 1 <= MaxRetries
    /\ \A k \in 1..n : fw_args.script[k] = "client_error"
    /\ fw_args.script[n + 1] = "ok"

\* The stub fails every attempt the call can make with an aiohttp.ClientError.
AlwaysFails == \A k \in 1..fw_args.retries : fw_args.script[k] = "client_error"

\* C5 for failures that are aiohttp.ClientErrors: with retries >= 1 and a
\* stub that fails the first n < retries attempts with a ClientError and then
\* succeeds, the call makes never more than n + 1 GETs and ends, after
\* exactly n + 1 of them, by returning the body.
C5_SuccessAfterTransientFailures ==
    \A n \in 0..(MaxRetries - 1) :
        (fw.pc # "idle" /\ fw_args.retries >= 1 /\ n < fw_args.retries
         /\ FailsThenSucceeds(n)) =>
            /\ fw.gets <= n + 1
            /\ FetchEnded =>
                /\ fw.pc = "returned"
                /\ fw.result = fw_args.body
                /\ fw.gets = n + 1

\* C5 witness: two ClientErrors, then the third and last attempt
\* returned the body.
C5_Witness ==
    /\ fw.pc = "returned"
    /\ fw_args.retries = 3
    /\ FailsThenSucceeds(2)
    /\ fw.gets = 3
    /\ fw.result = fw_args.body

\* C6, as claimed, for every retries: when every attempt fails with a
\* transient error the call makes exactly `retries` GETs and ends by raising
\* the error of the last attempt; and no call ends without a body or an
\* exception.
C6_FailureAfterAllAttempts ==
    fw.pc # "idle" =>
        /\ AlwaysFails =>
            /\ fw.gets <= fw_args.retries
            /\ FetchEnded =>
                /\ FetchFailure
                /\ fw.gets = fw_args.retries
                /\ fw.error = "client_error"
                /\ fw.error_attempt = fw_args.retries - 1
        /\ FetchEnded => (FetchSuccess \/ FetchFailure)

\* C6 restricted to retries >= 1: there the claimed behaviour holds; the only
\* departure is the call with retries <= 0, which returns None with no GET.
C6_FailureAfterAllAttempts_Positive ==
    (fw.pc # "idle" /\ fw_args.retries >= 1) =>
        /\ AlwaysFails =>
            /\ fw.gets <= fw_args.retries
            /\ FetchEnded =>
                /\ FetchFailure
                /\ fw.gets = fw_args.retries
                /\ fw.error = "client_error"
                /\ fw.error_attempt = fw_args.retries - 1
        /\ FetchEnded => (FetchSuccess \/ FetchFailure)

\* C6 witness: every one of three attempts failed and the call raised the
\* error of the third.
C6_Witness ==
    /\ fw.pc = "raised"
    /\ fw_args.retries = 3
    /\ AlwaysFails
    /\ fw.gets = 3
    /\ fw.error_attempt = 2

\* C7: the sleeps of a call are 1, backoff_factor, backoff_factor^2, ...;
\* there is exactly one sleep after each failed attempt that is followed by
\* another, and none after the last attempt of the call, failed or not.
C7_BackoffSchedule ==
    fw.pc \in {"get", "sleep", "returned", "raised"} =>
        /\ \A i \in 1..Len(fw.sleeps) :
            fw.sleeps[i] = IF i = 1 THEN 1 ELSE fw.sleeps[i - 1] * fw_args.backoff_factor
        /\ fw.pc = "get" => Len(fw.sleeps) = fw.gets
        /\ fw.pc = "sleep" => Len(fw.sleeps) = fw.gets /\ fw.gets < fw_args.retries
        /\ FetchEnded => Len(fw.sleeps) = IF fw.gets = 0 THEN 0 ELSE fw.gets - 1

\* C7 witness: a call with base 2 that failed three times has slept 1, then 2,
\* and not after the third attempt.
C7_Witness ==
    /\ fw.pc = "raised"
    /\ fw_args.backoff_factor = 2
    /\ fw.gets = 3
    /\ fw.sleeps = <<1, 2>>

(***************************************************************************)
(* Claims about get_external_links, under SpecExtract (and, for the        *)
(* scenario of C8, under Spec).                                            *)
(***************************************************************************)
\* The three conditions of C8 on an anchor of the page at `url`: (a) its
\* href is a complete URL with a scheme, (b) its domain is not the page's,
\* (c) its domain is in the domain set.
ClaimedExternal(url, link, domains) ==
    /\ link.has_href
    /\ link.href # <<>>
    /\ Let(urlparse(link.href), LAMBDA h :
           /\ ~h.raised
           /\ h.scheme # <<>>
           /\ h.netloc # <<>>
           /\ h.netloc # urlparse(url).netloc
           /\ h.netloc \in domains)

\* The hrefs C8 says are returned: those of the anchors that meet the three
\* conditions, in document order, duplicates kept.
ClaimedLinks(url, all_links, domains) ==
    LET kept == SelectSeq(all_links, LAMBDA link : ClaimedExternal(url, link, domains))
    IN  [i \in 1..Len(kept) |-> kept[i].href]

\* C8, as claimed, for a page that was fetched and parsed and none of whose
\* anchors raised: the links returned are exactly the hrefs that are complete
\* URLs with a scheme, of another domain than the page, of a domain in the
\* domain set, in document order with duplicates.
C8_ExactlyQualifyingHrefs ==
    (gel.pc = "done" /\ gel.fetch_error = "none" /\ gel.page.parses /\ ~gel.caught) =>
        gel.external_links =
            ClaimedLinks(gel.url, gel.page.all_links, gel.search_result_domains)

\* C8, its scenario: for urls = [a.com, b.com], with a.com's page linking to
\* b.com and c.com and b.com's page linking to a.com, both served, the crawl
\* returns [b.com] and [a.com].
C8_Scenario ==
    (/\ crawl_pc = "returned"
     /\ urls = <<U_A, U_B>>
     /\ pages = ScenarioPages
     /\ \A u \in URLs : net[u] \in {"up", "flaky"}) =>
        crawl_result = << <<H_B>>, <<H_A>> >>

\* C9, as claimed: the extractor never raises, and whenever a step of it
\* failed (the fetch, the parse, an anchor) what it returns is empty.
C9_FailureYieldsEmpty ==
    gel.pc = "done" =>
        /\ gel.escaped = "none"
        /\ gel.caught => gel.external_links = <<>>

\* The part of C9 the code keeps: the extractor never raises, and a failed
\* fetch or a page that does not parse yields the empty sequence.
C9_NeverRaises ==
    gel.pc = "done" =>
        /\ gel.escaped = "none"
        /\ (gel.fetch_error # "none" \/ ~gel.page.parses) =>
               (gel.caught /\ gel.external_links = <<>>)

(***************************************************************************)
(* Claims about scrape_google_search_results, under SpecScrape.            *)
(***************************************************************************)
\* The search page was fetched and parsed, and every container gave a link.
ScrapedSuccessfully ==
    sgr.pc = "done" /\ sgr.fetch_error = "none" /\ sgr.page.parses /\ sgr.errors = 0

\* The hrefs of the containers of the page, in page order.
PageLinks == [i \in 1..Len(sgr.page.search_results) |-> sgr.page.search_results[i].href]

\* The link itself holds one of the exclusion strings.
LinkHoldsExcluded(link) ==
    \E i \in 1..Len(sgr.exclude_websites) : Contains(link, sgr.exclude_websites[i])

\* The link as urlparse(link).geturl() gives it back (scheme in lower case,
\* an empty query or fragment dropped) holds one of the exclusion strings.
NormalisedLinkHoldsExcluded(link) ==
    Let(geturl(urlparse(link)), LAMBDA subject :
        \E i \in 1..Len(sgr.exclude_websites) : Contains(subject, sgr.exclude_websites[i]))

\* C10, as claimed: after a successful fetch and parse the result is exactly
\* the links, in page order, that hold none of the exclusion strings.
C10_ExcludesBySubstringOfLink ==
    ScrapedSuccessfully =>
        sgr.result_urls = SelectSeq(PageLinks, LAMBDA link : ~LinkHoldsExcluded(link))

\* C10 as the code computes it: after a successful fetch and parse the result
\* is exactly the links, in page order and as they stand in the page, whose
\* normalised form (urlparse(link).geturl()) holds none of the exclusion
\* strings.
C10_ExcludesBySubstringOfNormalisedLink ==
    ScrapedSuccessfully =>
        sgr.result_urls =
            SelectSeq(PageLinks, LAMBDA link : ~NormalisedLinkHoldsExcluded(link))

\* C10 witness: a page of three results was scraped; the second is excluded,
\* the first and the third are returned.
C10_Witness ==
    /\ ScrapedSuccessfully
    /\ Len(PageLinks) = 3
    /\ NormalisedLinkHoldsExcluded(PageLinks[2])
    /\ sgr.result_urls = <<PageLinks[1], PageLinks[3]>>

\* C11: when the fetch of the search URL fails, the scraper raises nothing,
\* returns the empty list and reports one error with st.error; for a server
\* that fails every GET this comes after the three attempts of the default
\* policy, with the sleeps 1 and 2 between them.
C11_SoftFailureOnFetchFailure ==
    sgr.pc = "done" =>
        /\ sgr.fetch_error # "none" =>
               /\ sgr.escaped = "none"
               /\ sgr.result_urls = <<>>
               /\ sgr.errors = 1
        /\ sgr.net = "down" =>
               /\ sgr.fetch_error = "client_error"
               /\ sgr.f.gets = DefaultRetries
               /\ sgr.f.sleeps = <<1, 2>>

\* C11 witness: every one of the three GETs of a page with three good results
\* failed, and the scraper returned [] with one error shown.
C11_Witness ==
    /\ sgr.pc = "done"
    /\ sgr.net = "down"
    /\ sgr.f.gets = 3
    /\ sgr.page = ResultPage(<<Result(R_A), Result(R_A), Result(R_SPAM)>>)
    /\ sgr.exclude_websites = <<>>
    /\ sgr.result_urls = <<>>
    /\ sgr.errors = 1

\* A container whose processing raises: no <a>, an <a> without href, or an
\* href that urlparse rejects.
ContainerFails(result) ==
    ~result.has_a \/ ~result.has_href \/ urlparse(result.href).raised

\* C19: the scraper returns either the complete filtered list of the page or
\* the empty list; when a container fails, also after links were accepted,
\* the return value is the empty list and never a prefix.
C19_AllOrNothing ==
    (sgr.pc = "done" /\ sgr.fetch_error = "none" /\ sgr.page.parses) =>
        IF \E k \in 1..Len(sgr.page.search_results) :
               ContainerFails(sgr.page.search_results[k])
        THEN sgr.result_urls = <<>> /\ sgr.errors = 1 /\ sgr.escaped = "none"
        ELSE /\ sgr.errors = 0
             /\ sgr.result_urls =
                    SelectSeq(PageLinks, LAMBDA link : ~NormalisedLinkHoldsExcluded(link))

\* C19 witness: the first two results of the page were accepted, the third
\* container has no anchor, and the scraper returned [].
C19_Witness ==
    /\ sgr.pc = "done"
    /\ sgr.fetch_error = "none"
    /\ sgr.page = ResultPage(<<Result(R_A), Result(R_SPAM), NoAnchor>>)
    /\ sgr.exclude_websites = <<>>
    /\ sgr.result_urls = <<>>
    /\ sgr.errors = 1

(***************************************************************************)
(* Claims about main_async, under SpecMain.                                *)
(***************************************************************************)
\* C12, as claimed: no step of a run ends it with an uncaught error; a run
\* whose scrape gave a list that is not empty goes on to the crawl, one call
\* of process_search_results for the candidate URLs; a run whose scrape gave
\* the empty list never starts the crawl.
C12_RunCrawlsCandidates ==
    /\ main.pc # "raised"
    /\ main.pc \in {"links_fetched", "returned"} =>
           IF main.urls # <<>> THEN main.crawl_calls = 1 ELSE main.crawl_calls = 0

\* The part of C12 the code keeps: a run whose scrape gave the empty list
\* ends by returning, with one error shown by main_async and no crawl.
C12_EmptyListEndsRun ==
    (main.pc # "scrape" /\ sgr.result_urls = <<>>) =>
        main.pc = "returned" /\ main.errors = 1 /\ main.crawl_calls = 0

(***************************************************************************)
(* Further claims about process_search_results, under Spec.                *)
(***************************************************************************)
\* What the fixtures alone give: for each position the link list of its URL.
\* Neither concurrency_limit nor any task state enters.
ExpectedResult == [i \in 1..Len(urls) |-> LinksFor(i)]

\* C13: the crawl result is a function of the fixtures (urls, the fetch
\* outcome and the page of each URL): in every run, whatever the interleaving
\* of the tasks, the order of completion and concurrency_limit, the crawl
\* returns that same result.
C13_ResultDeterminedByFixtures ==
    crawl_pc # "gathering" =>
        crawl_pc = "returned" /\ crawl_result = ExpectedResult

\* C13 witness: a crawl of three URLs under limit 2 has returned, the tasks
\* having completed in the order 2, 3, 1, with records that are not all equal.
C13_Witness ==
    /\ crawl_pc = "returned"
    /\ concurrency_limit = 2
    /\ completed = <<2, 3, 1>>
    /\ \E i, j \in 1..Len(urls) : crawl_result[i] # crawl_result[j]

\* C14: the crawl has returned only if every task has completed and gather
\* holds the outcome of every one of them.
C14_ReturnsAfterAllTasks ==
    crawl_pc # "gathering" =>
        \A i \in 1..Len(urls) : tasks[i].st = "done" /\ gathered[i].done

\* C14 witness: the first task to complete failed in its fetch, a task that
\* completed later gave links, and the crawl has returned.
C14_Witness ==
    /\ crawl_pc = "returned"
    /\ Len(urls) >= 2
    /\ tasks[completed[1]].f.pc = "raised"
    /\ \E i \in 1..Len(urls) : i # completed[1] /\ crawl_result[i] # <<>>

\* The semaphore has given task i a slot / task i has entered its section.
Admitted(i) == tasks[i].st \in {"woken", "running", "done"}
Entered(i) == tasks[i].st \in {"running", "done"}

\* C17: for positions i < j, task j has a slot only if task i has one, and
\* task j has entered its section only if task i has.
C17_AdmittedInInputOrder ==
    \A i, j \in 1..Len(urls) :
        i < j => /\ Admitted(j) => Admitted(i)
                 /\ Entered(j) => Entered(i)

\* C17 witness: under limit 2 the three tasks were admitted in input order,
\* the third once the second had ended, and the first, admitted first, is
\* still running: completion is not in input order.
C17_Witness ==
    /\ Len(urls) = 3
    /\ concurrency_limit = 2
    /\ \A i \in 1..3 : Entered(i)
    /\ completed = <<2>>
    /\ tasks[1].st = "running"
    /\ tasks[3].st = "running"

\* C18: the slots in use are exactly those of the tasks admitted and not yet
\* ended, a task between two attempts or asleep in backoff included; while a
\* task waits no slot is free; and when every task has ended every slot is
\* back.
C18_SlotHeldUntilCallEnds ==
    /\ semaphore.value = concurrency_limit - Cardinality(InSection)
    /\ semaphore.waiters # <<>> => semaphore.value = 0
    /\ \A i \in 1..Len(urls) :
           tasks[i].st = "waiting" <=> \E k \in 1..Len(semaphore.waiters) : semaphore.waiters[k] = i
    /\ (\A i \in 1..Len(urls) : tasks[i].st = "done") => semaphore.value = concurrency_limit

\* C18 witness: every slot is held, a holder is in its second backoff sleep,
\* a task still waits, and a task that failed has already ended.
C18_Witness ==
    /\ crawl_pc = "gathering"
    /\ semaphore.value = 0
    /\ \E i \in InSection : tasks[i].f.pc = "sleep" /\ tasks[i].f.sleeps = <<1, 2>>
    /\ \E i \in 1..Len(urls) : tasks[i].st = "waiting"
    /\ \E i \in 1..Len(urls) : tasks[i].st = "done" /\ tasks[i].caught

(***************************************************************************)
(* Claims about the progress of process_search_results, under SpecLive.    *)
(***************************************************************************)
\* C16: when every GET and every backoff sleep ends, every task that waits
\* at the semaphore is eventually admitted and the crawl eventually returns.
\* Stated as: a task that has entered its section never goes back to waiting;
\* a task that ends while tasks wait hands its slot to the first of them,
\* whether it ended with links or with a failure; and eventually the crawl
\* has returned with every task having entered its section. So no task waits
\* for ever and there is no deadlock.
C16_WaitersAdmittedAndCrawlReturns ==
    /\ [][\A i \in 1..Len(urls) :
             /\ Entered(i) => Entered(i)'
             /\ (tasks[i].st # "done" /\ tasks'[i].st = "done" /\ semaphore.waiters # <<>>)
                    => tasks'[Head(semaphore.waiters)].st = "woken"]_vars
    /\ <>(crawl_pc = "returned" /\ \A i \in 1..Len(urls) : Entered(i))

\* C16 witness: under limit 1 the crawl of three URLs has returned, the last
\* task having got the slot of a task whose fetch had failed.
C16_Witness ==
    /\ crawl_pc = "returned"
    /\ concurrency_limit = 1
    /\ Len(urls) = 3
    /\ completed = <<1, 2, 3>>
    /\ tasks[2].f.pc = "raised"
    /\ tasks[3].f.pc = "returned"

(***************************************************************************)
(* Claims about fetch_with_retries by cause of error, under SpecFetch.      *)
(***************************************************************************)
\* The two classes of error of the specification.
TransientError(cause) == cause \in {"connection_failure", "timeout", "server_error"}
FatalError(cause) == cause \in {"malformed_url", "unparseable_response"}

\* The stub fails the first n attempts with a TransientError and answers
\* attempt n + 1.
TransientThenSucceeds(n) ==
    /\ n + 1 <= MaxRetries
    /\ \A k \in 1..n : TransientError(fw_args.causes[k])
    /\ fw_args.causes[n + 1] = "ok"

\* C5, as claimed: with retries >= 1 and a stub that fails the first
\* n < retries attempts with a TransientError (a connection failure, a
\* timeout, a server-side failure) and then succeeds, the call ends after
\* exactly n + 1 GETs by returning the body.
C5_SuccessAfterTransientErrors ==
    \A n \in 0..(MaxRetries - 1) :
        (fw.pc # "idle" /\ fw_args.retries >= 1 /\ n < fw_args.retries
         /\ TransientThenSucceeds(n)) =>
            /\ fw.gets <= n + 1
            /\ FetchEnded =>
                /\ fw.pc = "returned"
                /\ fw.result = fw_args.body
                /\ fw.gets = n + 1

\* Attempt k (1-based) has failed and was retried: asyncio.sleep was called
\* after it. The k-th sleep of a call is the one after attempt k, since every
\* attempt before a sleep was followed by one.
Retried(k) == k <= Len(fw.sleeps)

\* C15, as claimed: an attempt is retried exactly when its error is a
\* TransientError (a failed attempt that is not retried though attempts
\* remain had a FatalError), and a FatalError on the first attempt ends the
\* call as a Failure after that one GET and without a sleep.
C15_RetriesExactlyTransient ==
    fw.pc \notin {"idle", "call"} =>
        /\ \A k \in 1..fw.gets : Retried(k) => TransientError(fw_args.causes[k])
        /\ (fw.pc = "raised" /\ fw.gets < fw_args.retries)
               => FatalError(fw_args.causes[fw.gets])
        /\ (fw.gets >= 1 /\ FetchEnded /\ FatalError(fw_args.causes[1]))
               => (fw.pc = "raised" /\ fw.gets = 1 /\ fw.sleeps = <<>>)

\* What the code does in place of C15: an attempt is retried exactly when
\* its exception is an aiohttp.ClientError and attempts remain.
C15_RetriesExactlyClientError ==
    fw.pc \notin {"idle", "call"} =>
        /\ \A k \in 1..fw.gets : Retried(k) => fw_args.script[k] = "client_error"
        /\ (fw.pc = "raised" /\ fw.gets < fw_args.retries)
               => fw_args.script[fw.gets] = "other_error"

====
